---- MODULE Spec2Model ----
(***************************************************************************)
(* A model of TTLCache (src/src/ttl-cache.ts): a Map<string, CacheEntry>   *)
(* whose entries are discarded by a setTimeout callback scheduled when the *)
(* entry is added.  Every public method is one atomic step (JavaScript     *)
(* runs each call and each timer callback to completion); the passage of   *)
(* time is the step Tick, which counts every pending timer's delay down.   *)
(***************************************************************************)
EXTENDS Integers, FiniteSets, TLC

(* ---- bounds ---- *)
MaxTtl == 2
MaxInserts == 2

(* ---- inputs ---- *)
Keys == {"", "a", "b"}
Values == {0, 1, 2}

VARIABLES
  ttl,          \* this.ttl
  cache,        \* this.cache : Map<string, CacheEntry<T>>
  timers,       \* the pending setTimeout callbacks of _discard
  call,         \* the step taken last, with what it returned
  inserts,      \* history: how many timers _discard has created so far
  lastGen,      \* history: per key, the timer created by its last insertion
  removedSince, \* history: per key, remove(key) was called since that insertion
  batch,        \* history: per key, the value add stored, kept while only add,
                \* get and _get have been called and no timer has fired
  window,       \* history: per key, the timer of the entry that remove deleted
                \* right before the last insertion, if its delay was still
                \* running at that insertion (0 if none)
  inserted,     \* history: per key, how often add has stored a new entry
  scheduled     \* history: per key, how many timers setTimeout has created

vars == <<ttl, cache, timers, call, inserts, lastGen, removedSince, batch, window,
          inserted, scheduled>>

EntryKeys == Keys \ {""}

(* JavaScript truthiness of the arguments: !key holds of the empty string, *)
(* !value of 0 (standing for every falsy value).                           *)
KeyFalsy(key) == key = ""
ValueFalsy(value) == value = 0

CacheEntry(value, t) == [value |-> value, ttl |-> t]

(* ---- what a call gives back ---- *)
RetTrue == [kind |-> "true", value |-> 0, ttl |-> 0]
RetFalse == [kind |-> "false", value |-> 0, ttl |-> 0]
RetNull == [kind |-> "null", value |-> 0, ttl |-> 0]
RetValue(v) == [kind |-> "value", value |-> v, ttl |-> 0]
RetEntry(e) == [kind |-> "entry", value |-> e.value, ttl |-> e.ttl]
Throw == [kind |-> "throw", value |-> 0, ttl |-> 0]
NoRet == [kind |-> "none", value |-> 0, ttl |-> 0]

Call(op, key, value, ret) ==
  [op |-> op, key |-> key, value |-> value, ret |-> ret,
   had |-> key \in DOMAIN cache]

(* ---- Map ---- *)
has(key) == key \in DOMAIN cache
MapSet_clobber(m, key, e) == [x \in {key} |-> e]

MapSet(m, key, e) == [x \in DOMAIN m \cup {key} |-> IF x = key THEN e ELSE m[x]]

MapDelete_clear(m, key) == [x \in {} |-> m[x]]

MapDelete(m, key) == [x \in DOMAIN m \ {key} |-> m[x]]

(* the history `batch` once something other than add, get, _get happened *)
BatchOff == [k \in EntryKeys |-> -1]

(* ---- _discard ---- *)
Timer(key, gen, remaining) == [key |-> key, gen |-> gen, remaining |-> remaining]

_discard_none(key) == timers

_discard(key) == timers \cup {Timer(key, inserts + 1, ttl)}

(* history: `scheduled` after a call that leaves newTimers pending; a timer *)
(* is new when no pending timer has its identity                            *)
Scheduled(newTimers) ==
  [k \in EntryKeys |->
     scheduled[k] + Cardinality({t \in newTimers :
                       /\ t.key = k
                       /\ \A u \in timers : ~(u.key = t.key /\ u.gen = t.gen)})]

(* ---- add ---- *)
addThrows(key, value) == KeyFalsy(key) \/ ValueFalsy(value)

addInserts(key, value) == ~addThrows(key, value) /\ ~has(key)

addCache_noStore(key, value) == cache

addCache_overwrite(key, value) ==
  IF addThrows(key, value) THEN cache
  ELSE MapSet(cache, key, CacheEntry(value, ttl))

addCache(key, value) ==
  IF addInserts(key, value) THEN MapSet(cache, key, CacheEntry(value, ttl))
  ELSE cache

addTimers_always(key, value) ==
  IF addThrows(key, value) THEN timers ELSE _discard(key)

addTimers(key, value) ==
  IF addInserts(key, value) THEN _discard(key) ELSE timers

addResult(key, value) ==
  IF addThrows(key, value) THEN Throw ELSE RetTrue

(* history: the insertion follows a successful remove of the same key whose *)
(* entry's timer has not run out yet                                        *)
addWindow(key) ==
  IF /\ call.op = "remove" /\ call.key = key /\ call.ret = RetTrue
     /\ \E t \in timers : t.key = key /\ t.gen = lastGen[key] /\ t.remaining > 0
  THEN lastGen[key] ELSE 0

add(key, value) ==
  /\ addInserts(key, value) => inserts < MaxInserts
  /\ cache' = addCache(key, value)
  /\ timers' = addTimers(key, value)
  /\ call' = Call("add", key, value, addResult(key, value))
  /\ inserts' = IF addInserts(key, value) THEN inserts + 1 ELSE inserts
  /\ lastGen' = IF addInserts(key, value)
                THEN [lastGen EXCEPT ![key] = inserts + 1] ELSE lastGen
  /\ removedSince' = IF addInserts(key, value)
                     THEN [removedSince EXCEPT ![key] = FALSE] ELSE removedSince
  /\ batch' = IF addInserts(key, value) /\ batch # BatchOff
              THEN [batch EXCEPT ![key] = value] ELSE batch
  /\ window' = IF addInserts(key, value)
               THEN [window EXCEPT ![key] = addWindow(key)] ELSE window
  /\ inserted' = IF addInserts(key, value)
                 THEN [inserted EXCEPT ![key] = @ + 1] ELSE inserted
  /\ scheduled' = Scheduled(addTimers(key, value))
  /\ UNCHANGED ttl

(* ---- get, _get ---- *)
getThrows(key) == KeyFalsy(key)

getResult(key) ==
  IF getThrows(key) THEN Throw
  ELSE IF ~has(key) THEN RetNull
  ELSE RetValue(cache[key].value)

getTimers_refresh(key) ==
  IF ~getThrows(key) /\ has(key)
  THEN {IF t.key = key THEN Timer(t.key, t.gen, ttl) ELSE t : t \in timers}
  ELSE timers

getTimers(key) == timers

get(key) ==
  /\ call' = Call("get", key, 0, getResult(key))
  /\ timers' = getTimers(key)
  /\ scheduled' = Scheduled(getTimers(key))
  /\ UNCHANGED <<ttl, cache, inserts, lastGen, removedSince, batch, window, inserted>>

_getResult(key) ==
  IF getThrows(key) THEN Throw
  ELSE IF ~has(key) THEN RetNull
  ELSE RetEntry(cache[key])

_get(key) ==
  /\ call' = Call("_get", key, 0, _getResult(key))
  /\ timers' = getTimers(key)
  /\ scheduled' = Scheduled(getTimers(key))
  /\ UNCHANGED <<ttl, cache, inserts, lastGen, removedSince, batch, window, inserted>>

(* ---- update ---- *)
updateThrows(key, value) == KeyFalsy(key) \/ ValueFalsy(value)

updateCache_upsert(key, value) ==
  IF updateThrows(key, value) THEN cache
  ELSE MapSet(cache, key, CacheEntry(value, ttl))

updateCache_dropTtl(key, value) ==
  IF updateThrows(key, value) \/ _getResult(key) = RetNull THEN cache
  ELSE MapSet(cache, key, CacheEntry(value, 0))

updateCache(key, value) ==
  IF updateThrows(key, value) \/ _getResult(key) = RetNull THEN cache
  ELSE MapSet(cache, key, CacheEntry(value, _getResult(key).ttl))

updateTimers_reschedule(key, value) ==
  IF updateThrows(key, value) \/ ~has(key) THEN timers
  ELSE {IF t.key = key THEN Timer(t.key, t.gen, ttl) ELSE t : t \in timers}

updateTimers(key, value) == timers

updateResult_missingFirst(key, value) ==
  IF KeyFalsy(key) THEN Throw
  ELSE IF ~has(key) THEN RetFalse
  ELSE IF ValueFalsy(value) THEN Throw
  ELSE RetTrue

updateResult(key, value) ==
  IF updateThrows(key, value) THEN Throw
  ELSE IF _getResult(key) = RetNull THEN RetFalse
  ELSE RetTrue

update(key, value) ==
  /\ cache' = updateCache(key, value)
  /\ timers' = updateTimers(key, value)
  /\ call' = Call("update", key, value, updateResult(key, value))
  /\ batch' = BatchOff
  /\ scheduled' = Scheduled(updateTimers(key, value))
  /\ UNCHANGED <<ttl, inserts, lastGen, removedSince, window, inserted>>

(* ---- remove ---- *)
removeThrows(key) == KeyFalsy(key)

removeCache_keep(key) == cache

removeCache(key) ==
  IF removeThrows(key) \/ ~has(key) THEN cache ELSE MapDelete(cache, key)

removeResult(key) ==
  IF removeThrows(key) THEN Throw
  ELSE IF ~has(key) THEN RetFalse
  ELSE RetTrue

removeTimers_cancel(key) ==
  IF removeThrows(key) \/ ~has(key) THEN timers
  ELSE {t \in timers : t.key # key}

removeTimers(key) == timers

remove(key) ==
  /\ cache' = removeCache(key)
  /\ call' = Call("remove", key, 0, removeResult(key))
  /\ removedSince' = IF removeThrows(key) THEN removedSince
                     ELSE [removedSince EXCEPT ![key] = TRUE]
  /\ batch' = BatchOff
  /\ timers' = removeTimers(key)
  /\ scheduled' = Scheduled(removeTimers(key))
  /\ UNCHANGED <<ttl, inserts, lastGen, window, inserted>>

(* ---- the setTimeout callback of _discard: () => this.remove(key) ---- *)
expireCache_checked(t) ==
  IF t.gen = lastGen[t.key] THEN removeCache(t.key) ELSE cache

expireCache(t) == removeCache(t.key)

expireTimers_interval(t) == timers

expireTimers(t) == timers \ {t}

expire(t) ==
  /\ t \in timers
  /\ t.remaining = 0
  /\ cache' = expireCache(t)
  /\ timers' = expireTimers(t)
  /\ call' = Call("expire", t.key, 0, NoRet)
  /\ batch' = BatchOff
  /\ UNCHANGED <<ttl, inserts, lastGen, removedSince, window, inserted, scheduled>>

(* ---- time passes: every delay still running gets one unit shorter ---- *)
Tick ==
  /\ \E t \in timers : t.remaining > 0
  /\ timers' = {Timer(t.key, t.gen, IF t.remaining > 0 THEN t.remaining - 1 ELSE 0)
                  : t \in timers}
  /\ call' = Call("tick", "", 0, NoRet)
  /\ UNCHANGED <<ttl, cache, inserts, lastGen, removedSince, batch, window,
                 inserted, scheduled>>

TimerUniverse ==
  [key : EntryKeys, gen : 1..MaxInserts, remaining : 0..MaxTtl]

(* ---- constructor ---- *)
(* The ttl argument is either zero or the longest delay considered; a run   *)
(* with a shorter positive delay is a run of the longest one with fewer     *)
(* Tick steps between the calls.                                            *)
Init ==
  /\ ttl \in {0, MaxTtl}
  /\ cache = [x \in {} |-> CacheEntry(0, 0)]
  /\ timers = {}
  /\ call = [op |-> "new", key |-> "", value |-> 0, ret |-> NoRet, had |-> FALSE]
  /\ inserts = 0
  /\ lastGen = [k \in EntryKeys |-> 0]
  /\ removedSince = [k \in EntryKeys |-> FALSE]
  /\ batch = [k \in EntryKeys |-> 0]
  /\ window = [k \in EntryKeys |-> 0]
  /\ inserted = [k \in EntryKeys |-> 0]
  /\ scheduled = [k \in EntryKeys |-> 0]

Next ==
  \/ \E key \in Keys, value \in Values : add(key, value)
  \/ \E key \in Keys : get(key)
  \/ \E key \in Keys : _get(key)
  \/ \E key \in Keys, value \in Values : update(key, value)
  \/ \E key \in Keys : remove(key)
  \/ \E t \in timers : expire(t)
  \/ Tick

Spec == Init /\ [][Next]_vars

(* Time does not stop, and a key that has a timer due gets one of its due   *)
(* callbacks run.                                                           *)
FairSpec ==
  /\ Init /\ [][Next]_vars
  /\ WF_vars(Tick)
  /\ \A k \in EntryKeys : WF_vars(\E t \in timers : t.key = k /\ expire(t))

TypeOK ==
  /\ ttl \in 0..MaxTtl
  /\ DOMAIN cache \subseteq EntryKeys
  /\ timers \subseteq TimerUniverse
  /\ inserts \in 0..MaxInserts
(* ---- claims ---- *)

OwnTimers(k) == {t \in timers : t.key = k /\ t.gen = lastGen[k]}

NewInsert(k) ==
  call.op = "add" /\ call.key = k /\ ~call.had /\ call.ret = RetTrue

(* C1: under fair scheduling of the timer callbacks, after every successful *)
(* new insertion of a key there is a later state in which the key is absent *)
(* from the store, whatever the callers do or do not do.                    *)
C1_EventualExpiry ==
  \A k \in EntryKeys : NewInsert(k) ~> (~has(k) /\ getResult(k) = RetNull)

(* C1 witness: an entry nobody removed by hand has just been deleted by its *)
(* timer callback.                                                          *)
C1_Witness ==
  /\ call.op = "expire" /\ call.had /\ ~has(call.key)
  /\ ~removedSince[call.key]
  /\ OwnTimers(call.key) = {}

(* C2: an entry whose key was not passed to remove since its insertion is   *)
(* present, and get returns a value, at every time before ttl has elapsed   *)
(* since that insertion, that is while the delay of the timer created by    *)
(* that insertion is still running.                                         *)
C2_NoEarlyExpiry ==
  \A k \in EntryKeys :
    (/\ lastGen[k] # 0
     /\ ~removedSince[k]
     /\ \E t \in OwnTimers(k) : t.remaining > 0)
    => (has(k) /\ getResult(k).kind = "value")

(* C3: every key present in the store has exactly one pending timer, and    *)
(* that timer is the one created by the insertion of the key's entry, with  *)
(* a delay started at ttl by that insertion.                                *)
C3_ExactlyOneTimer ==
  \A k \in DOMAIN cache :
    /\ Cardinality({t \in timers : t.key = k}) = 1
    /\ \A t \in timers : t.key = k => (t.gen = lastGen[k] /\ t.remaining <= ttl)
(* C4: add of an absent non-empty key with a truthy value returns true, and *)
(* a get of that key in the state add leaves returns exactly that value,    *)
(* for every ttl, zero included.                                            *)
C4_InsertThenGet ==
  (call.op = "add" /\ ~call.had /\ ~KeyFalsy(call.key) /\ ~ValueFalsy(call.value))
  => (/\ call.ret = RetTrue
      /\ getResult(call.key) = RetValue(call.value))

(* C4 witness: a new insertion into a store whose ttl is zero, with the     *)
(* value readable right after it.                                           *)
C4_Witness ==
  /\ ttl = 0
  /\ call.op = "add" /\ ~call.had /\ call.ret = RetTrue
  /\ getResult(call.key) = RetValue(call.value)

(* C5: add of a key that is already present, with a truthy value, returns   *)
(* true and changes neither the entries (value and ttl of every key) nor    *)
(* the pending timers.                                                      *)
C5_DuplicateInsertNoOp ==
  [][\A k \in EntryKeys :
       (call'.op = "add" /\ call'.key = k /\ has(k) /\ ~ValueFalsy(call'.value))
       => (/\ call'.ret = RetTrue
           /\ cache' = cache
           /\ timers' = timers
           /\ getResult(k)' = getResult(k))]_vars

(* C5 witness: add was called on a present key with a value other than the  *)
(* stored one, and the stored one is still there.                           *)
C5_Witness ==
  /\ call.op = "add" /\ call.had /\ call.ret = RetTrue
  /\ has(call.key) /\ cache[call.key].value # call.value

(* C6: update with a non-empty key and a truthy value does not throw; it    *)
(* returns true exactly when the key was present when it was called, and    *)
(* then get returns the new value; otherwise it returns false and the key   *)
(* is still absent.                                                         *)
C6_UpdateResult ==
  (call.op = "update" /\ ~KeyFalsy(call.key) /\ ~ValueFalsy(call.value))
  => (/\ call.ret \in {RetTrue, RetFalse}
      /\ (call.ret = RetTrue) <=> call.had
      /\ call.had => getResult(call.key) = RetValue(call.value)
      /\ ~call.had => (~has(call.key) /\ getResult(call.key) = RetNull))

(* C6 witness: update of a key whose entry has been inserted and is gone    *)
(* again returned false and created nothing.                                *)
C6_Witness ==
  /\ call.op = "update" /\ call.ret = RetFalse
  /\ lastGen[call.key] # 0
  /\ ~has(call.key)

(* C7: a successful update leaves the pending timers as they are (none      *)
(* added, none cancelled, no delay restarted), keeps the same keys in the   *)
(* store, keeps every entry's ttl, and keeps every other key's entry.       *)
C7_UpdateKeepsExpiration ==
  [][(call'.op = "update" /\ call'.ret = RetTrue)
     => (/\ timers' = timers
         /\ DOMAIN cache' = DOMAIN cache
         /\ \A k \in DOMAIN cache :
              /\ cache'[k].ttl = cache[k].ttl
              /\ k # call'.key => cache'[k] = cache[k])]_vars

(* C7 witness: an entry part of whose lifetime has passed was updated while *)
(* another key was stored too, and its timer is still counting from the     *)
(* insertion.                                                               *)
C7_Witness ==
  /\ call.op = "update" /\ call.ret = RetTrue
  /\ DOMAIN cache = EntryKeys
  /\ \E t \in OwnTimers(call.key) : t.remaining < ttl

(* C8: remove with a non-empty key does not throw; it returns true exactly  *)
(* when the key was present, the key is absent afterwards and a remove that *)
(* follows returns false; on an absent key it changes nothing; and an       *)
(* absent key becomes present only by an add of that key.                   *)
C8_RemoveResult ==
  /\ []((call.op = "remove" /\ ~KeyFalsy(call.key))
        => (/\ call.ret \in {RetTrue, RetFalse}
            /\ (call.ret = RetTrue) <=> call.had
            /\ ~has(call.key)
            /\ getResult(call.key) = RetNull
            /\ removeResult(call.key) = RetFalse))
  /\ [][(call'.op = "remove" /\ ~has(call'.key))
        => (cache' = cache /\ timers' = timers)]_vars
  /\ [][\A k \in EntryKeys :
          (~has(k) /\ k \in DOMAIN cache')
          => (call'.op = "add" /\ call'.key = k)]_vars

(* C8 witness: a present key was removed by the caller and is absent.       *)
C8_Witness ==
  /\ call.op = "remove" /\ call.had /\ call.ret = RetTrue
  /\ ~has(call.key)

(* C9: every method throws on an empty key, add and update throw on a falsy *)
(* value whether or not the key exists, and a call that throws leaves the   *)
(* entries and the pending timers unchanged.                                *)
C9_Validation ==
  /\ []((call.op \in {"add", "get", "_get", "update", "remove"} /\ KeyFalsy(call.key))
        => call.ret = Throw)
  /\ []((call.op \in {"add", "update"} /\ ValueFalsy(call.value))
        => call.ret = Throw)
  /\ [][(call'.ret = Throw) => (cache' = cache /\ timers' = timers)]_vars

(* C9 witness: update of a missing key with a falsy value threw.            *)
C9_Witness ==
  /\ call.op = "update" /\ ~KeyFalsy(call.key) /\ ~call.had
  /\ ValueFalsy(call.value)
  /\ call.ret = Throw

(* C10: get and _get change neither the entries nor the pending timers nor  *)
(* any timer's delay; get returns the stored value exactly when the key is  *)
(* present and null otherwise.                                              *)
C10_GetReadOnly ==
  /\ [][(call'.op \in {"get", "_get"}) => (cache' = cache /\ timers' = timers)]_vars
  /\ []((call.op = "get" /\ ~KeyFalsy(call.key))
        => (/\ call.had <=> has(call.key)
            /\ call.had => call.ret = RetValue(cache[call.key].value)
            /\ ~call.had => call.ret = RetNull))

(* C10 witness: a present entry part of whose lifetime has passed was read. *)
C10_Witness ==
  /\ call.op = "get" /\ call.had /\ call.ret.kind = "value"
  /\ \E t \in OwnTimers(call.key) : t.remaining < ttl
(* C11: after any interleaving of add calls on distinct absent keys and of  *)
(* get calls, with no update, no remove and no timer fired, get of every    *)
(* inserted key returns the value inserted for that key.                    *)
C11_DistinctKeyInserts ==
  \A k \in EntryKeys :
    batch[k] > 0 => (has(k) /\ getResult(k) = RetValue(batch[k]))

(* C11 witness: every key has been inserted, with values that differ, and   *)
(* one of them has just been read back.                                     *)
C11_Witness ==
  /\ \A k \in EntryKeys : batch[k] > 0
  /\ \E j, k \in EntryKeys : batch[j] # batch[k]
  /\ call.op = "get" /\ call.ret = RetValue(batch[call.key])
(* C12: the store starts with no entries and no pending timers; in every    *)
(* state get of a key never inserted so far returns null; and ttl never     *)
(* changes after construction.                                              *)
C12_InitialState ==
  /\ (DOMAIN cache = {} /\ timers = {})
  /\ [](\A k \in EntryKeys :
          lastGen[k] = 0 => (~has(k) /\ getResult(k) = RetNull))
  /\ [][ttl' = ttl]_vars

(* C12 witness: get of a key never inserted returned null in a store that   *)
(* already holds another key.                                               *)
C12_Witness ==
  /\ call.op = "get" /\ ~KeyFalsy(call.key)
  /\ lastGen[call.key] = 0
  /\ call.ret = RetNull
  /\ DOMAIN cache # {}
(* C13: the timer callback deletes the entry that holds its key whichever   *)
(* insertion scheduled it: after every firing of a timer for a key, that    *)
(* key is absent.  The witness is the state the claim says is reachable.    *)
C13_TimerIdentityGap ==
  [][\A t \in timers :
       (call'.op = "expire" /\ t \notin timers')
       => (call'.key = t.key /\ t.key \notin DOMAIN cache')]_vars

(* C13 witness: add, remove and add again of one key happened while the     *)
(* first add's delay was running; the first add's timer has just fired and  *)
(* deleted the second add's entry, whose own delay is still running.        *)
C13_Witness ==
  /\ call.op = "expire" /\ call.had /\ ~has(call.key)
  /\ window[call.key] # 0
  /\ \A t \in timers : ~(t.key = call.key /\ t.gen = window[call.key])
  /\ \E t \in OwnTimers(call.key) : t.remaining > 0
(* C14: remove, whatever it returns, leaves the pending timers unchanged,   *)
(* and no step of the store cancels a timer: a pending timer disappears     *)
(* only by firing, once its delay has run out.                              *)
C14_NoCancellation ==
  /\ [][(call'.op = "remove") => timers' = timers]_vars
  /\ [][\A t \in timers :
          (\A u \in timers' : ~(u.key = t.key /\ u.gen = t.gen))
          => (call'.op = "expire" /\ call'.key = t.key /\ t.remaining = 0)]_vars

(* C14 witness: the only entry ever inserted was removed by the caller, and *)
(* its timer has fired afterwards, finding the key absent.                  *)
C14_Witness ==
  /\ call.op = "expire" /\ ~call.had
  /\ inserts = 1
  /\ lastGen[call.key] = 1
  /\ removedSince[call.key]
  /\ timers = {}
(* C15: a firing timer callback cannot throw (its key is never empty); the  *)
(* step deletes the entry of its key if there is one, keeps every other     *)
(* entry and every other pending timer, returns nothing to anybody, and     *)
(* leaves the key absent; the key becomes present again only by a new       *)
(* insertion of it.                                                         *)
C15_ExpirationAction ==
  /\ [](\A t \in timers : ~KeyFalsy(t.key) /\ removeResult(t.key) # Throw)
  /\ [][(call'.op = "expire")
        => \E t \in timers :
             /\ t.remaining = 0
             /\ call'.key = t.key
             /\ call'.ret = NoRet
             /\ timers' = timers \ {t}
             /\ DOMAIN cache' = DOMAIN cache \ {t.key}
             /\ \A k \in DOMAIN cache' : cache'[k] = cache[k]]_vars
  /\ [][\A k \in EntryKeys :
          (~has(k) /\ k \in DOMAIN cache')
          => (call'.op = "add" /\ lastGen'[k] = inserts' /\ inserts' = inserts + 1)]_vars

(* C15 witness: a timer has fired and deleted its key's entry while another *)
(* key's entry and timer stay.                                              *)
C15_Witness ==
  /\ call.op = "expire" /\ call.had /\ ~has(call.key)
  /\ \E k \in DOMAIN cache : k # call.key /\ OwnTimers(k) # {}
(* C16: add of an absent key creates exactly one timer, for that key, with  *)
(* delay ttl; add of a present key, get, _get, update, remove and calls     *)
(* that throw create none; so for every key the number of timers ever       *)
(* created equals the number of new insertions of it.                       *)
C16_TimerAccounting ==
  /\ [](\A k \in EntryKeys : scheduled[k] = inserted[k])
  /\ [][\A k \in EntryKeys :
          (call'.op = "add" /\ call'.key = k /\ ~has(k) /\ call'.ret = RetTrue)
          => \E t \in timers' \ timers :
               /\ t.key = k
               /\ t.remaining = ttl
               /\ timers' = timers \cup {t}]_vars
  /\ [][(\/ call'.op \in {"get", "_get", "update", "remove"}
         \/ (call'.op = "add" /\ (has(call'.key) \/ call'.ret = Throw)))
        => timers' = timers]_vars

(* C16 witness: one key has been inserted twice, the second time just now,  *)
(* and two timers have been created for it.                                 *)
C16_Witness ==
  /\ call.op = "add" /\ ~call.had /\ call.ret = RetTrue
  /\ inserted[call.key] = 2
  /\ scheduled[call.key] = 2
(* C17: _get returns null exactly when get returns null, and otherwise an   *)
(* entry whose value is the one get returns; every stored entry's ttl is    *)
(* the store's ttl, before and after any update, and a successful update    *)
(* leaves the ttl that _get reports unchanged.                              *)
C17_EntryMetadata ==
  /\ [](\A k \in EntryKeys :
          /\ (_getResult(k) = RetNull) <=> (getResult(k) = RetNull)
          /\ has(k) => (/\ _getResult(k).kind = "entry"
                        /\ getResult(k).kind = "value"
                        /\ _getResult(k).value = getResult(k).value
                        /\ _getResult(k).ttl = ttl))
  /\ [][\A k \in EntryKeys :
          (call'.op = "update" /\ call'.key = k /\ call'.ret = RetTrue)
          => _getResult(k)'.ttl = _getResult(k).ttl]_vars

(* C17 witness: an entry of a store with a positive ttl has been updated    *)
(* and _get reports the new value with the store's ttl.                     *)
C17_Witness ==
  /\ ttl > 0
  /\ call.op = "update" /\ call.ret = RetTrue
  /\ _getResult(call.key) = RetEntry(CacheEntry(call.value, ttl))
(* C18: in every state every key present in the store has at least one      *)
(* pending timer for that key.                                              *)
C18_NoImmortalEntry ==
  \A k \in DOMAIN cache : \E t \in timers : t.key = k

(* C18 witness: an entry whose timer is due but has not fired yet has been  *)
(* updated; the due timer is still pending for it.                          *)
C18_Witness ==
  /\ call.op = "update" /\ call.ret = RetTrue /\ has(call.key)
  /\ \A t \in timers : t.key = call.key => t.remaining = 0
  /\ \E t \in timers : t.key = call.key
(* C19: if from some point on no step is a new insertion, then, time        *)
(* passing and due callbacks running, the store eventually has no entries   *)
(* and no pending timers and stays so.                                      *)
C19_Quiescence ==
  (<>[][inserts' = inserts]_vars) => <>[](DOMAIN cache = {} /\ timers = {})

(* C19 witness: after an insertion and a remove by the caller, the stale    *)
(* timer has fired and left the store with no entries and no timers.        *)
C19_Witness ==
  /\ call.op = "expire" /\ ~call.had
  /\ removedSince[call.key]
  /\ inserts > 0
  /\ DOMAIN cache = {} /\ timers = {}
====
